---- MODULE Spec2Model ----
(***************************************************************************)
(* Queue manager of the demo platform: one shared terminal session, a FIFO *)
(* queue of waiting WebSocket clients, invite validation against Redis,    *)
(* session tokens, disconnect grace and the ttyd subprocess lifecycle.     *)
(*                                                                         *)
(* Every handler of the Node program is an operator from a state record to *)
(* a state record; an action applies one handler to the current state.     *)
(* A handler that awaits a Redis call stops at the await: the rest of it   *)
(* is a continuation record in redisq, resumed by RedisReply.  Redis       *)
(* answers over one connection, so replies come back in the order the      *)
(* commands were issued.                                                   *)
(***************************************************************************)
EXTENDS Integers, Sequences, FiniteSets, TLC

\* ---- bounds of the exploration ----
\* connection ids the model has room for
MaxConn == 3
\* Redis commands outstanding at once
MaxInflight == 2
\* the lifecycle exploration: one browser, every timer, exits, spawn failures
SoloConn == 1
SoloSessions == 3
SoloJoins == 3
\* the reconnect exploration: two connections, every timer and exit
PairConn == 2
PairSessions == 2
PairJoins == 2
\* the queue exploration: three connections, one session
QueueConn == 3
QueueSessions == 1
QueueJoins == 3
\* the full-queue exploration: two connections, one session, joins past the bound
FullConn == 2
FullSessions == 1
FullJoins == 4
\* the invite exploration
InviteConn == 2
InviteSessions == 2
InviteJoins == 3
MaxStoredUses == 2
\* the validation exploration
RouteConn == 1
RouteSessions == 2
RouteJoins == 2
\* the exploration with three connections and fair timers
LiveConn == 3
LiveSessions == 2
LiveJoins == 3
\* the exploration up to the shutdown
ShutdownConn == 2
ShutdownSessions == 2
ShutdownJoins == 2
\* the exploration with a failing store
FailConn == 2
FailSessions == 2
FailJoins == 2
\* the token exploration
TokenConn == 2
TokenSessions == 2
TokenJoins == 3

\* ---- program constants ----
MAX_QUEUE_SIZE == 2
AVERAGE_SESSION_MINUTES == 45

Conn == 1..MaxConn
IPs == {"ip1", "ip2"}
\* message.inviteToken as it arrives: field absent, JSON null, or a token string
InviteInputs == {"undefined", "null", "T1"}
Truthy(tok) == tok \notin {"undefined", "null"}
\* JavaScript `x || null`
OrNull(tok) == IF Truthy(tok) THEN tok ELSE "null"
NoToken == 0
\* The invite tokens presented: "T1" names a token of eight URL-safe characters,
\* "abc" is too short, "bad token!" holds characters outside [A-Za-z0-9_-].
TokenShape(tok) ==
    CASE tok = "T1" -> [length |-> 8, urlSafe |-> TRUE]
      [] tok = "abc" -> [length |-> 3, urlSafe |-> TRUE]
      [] tok = "bad token!" -> [length |-> 10, urlSafe |-> FALSE]
      [] OTHER -> [length |-> 0, urlSafe |-> FALSE]
\* /^[A-Za-z0-9_-]{4,64}$/.test(token)
WellFormed(tok) ==
    TokenShape(tok).urlSafe /\ TokenShape(tok).length >= 4 /\ TokenShape(tok).length <= 64

VARIABLES
    clients,        \* state.clients: connection id -> client object
    queue,          \* state.queue
    activeSession,  \* state.activeSession: a session id, 0 for null
    sessions,       \* the session objects ever created; sessionId = index
    ttyd,           \* the ttyd subprocess of each session, same index
    envFiles,       \* session ids whose credential file exists
    sessionTokens,  \* state.sessionTokens: set of [tok, sid]
    pendingSessionTokens, \* state.pendingSessionTokens: set of [tok, clientId, inviteToken, ip]
    disconnectGraceTimeout, \* state.disconnectGraceTimeout: timer id, 0 for null
    reconnectionInProgress, \* state.reconnectionInProgress
    timers,         \* armed timers, not yet fired or cleared
    redisq,         \* handlers suspended on a Redis call, in issue order
    invites,        \* Redis: invite:<token> records
    nextConn,       \* connections opened so far + 1 (the next client id)
    nextTok,        \* session tokens minted so far + 1
    joins,          \* join_queue messages that began an invite validation or minted a token
    out,            \* frames sent by the last step
    last,           \* the last step: [op, c, sid, arg]
    admitted,       \* history: client ids in the order of their first queue.push
    held,           \* history: admitted client ids that have become activeSession.clientId
    gone,           \* history: client ids that left the queue or disconnected
    listening,      \* the WebSocket and HTTP listeners are open and the process runs
    lim             \* the bounds of the exploration under way; never changes

vars == <<clients, queue, activeSession, sessions, ttyd, envFiles, sessionTokens,
          pendingSessionTokens, disconnectGraceTimeout, reconnectionInProgress,
          timers, redisq, invites, nextConn, nextTok, joins, out, last,
          admitted, held, gone, listening, lim>>

\* The current state as one record, the argument of the handlers.
Cur ==
    [clients |-> clients, queue |-> queue, activeSession |-> activeSession,
     sessions |-> sessions, ttyd |-> ttyd, envFiles |-> envFiles,
     sessionTokens |-> sessionTokens, pendingSessionTokens |-> pendingSessionTokens,
     disconnectGraceTimeout |-> disconnectGraceTimeout,
     reconnectionInProgress |-> reconnectionInProgress,
     timers |-> timers, redisq |-> redisq, invites |-> invites,
     nextConn |-> nextConn, nextTok |-> nextTok, joins |-> joins,
     out |-> out, last |-> last, admitted |-> admitted, held |-> held, gone |-> gone,
     listening |-> listening]

Apply(n) ==
    /\ clients' = n.clients
    /\ queue' = n.queue
    /\ activeSession' = n.activeSession
    /\ sessions' = n.sessions
    /\ ttyd' = n.ttyd
    /\ envFiles' = n.envFiles
    /\ sessionTokens' = n.sessionTokens
    /\ pendingSessionTokens' = n.pendingSessionTokens
    /\ disconnectGraceTimeout' = n.disconnectGraceTimeout
    /\ reconnectionInProgress' = n.reconnectionInProgress
    /\ timers' = n.timers
    /\ redisq' = n.redisq
    /\ invites' = n.invites
    /\ nextConn' = n.nextConn
    /\ nextTok' = n.nextTok
    /\ joins' = n.joins
    /\ out' = n.out
    /\ last' = n.last
    /\ admitted' = n.admitted
    /\ held' = n.held
    /\ gone' = n.gone
    /\ listening' = n.listening
    /\ lim' = lim

\* ---- values ----
NoClient == [open |-> FALSE, state |-> "none", ip |-> "none",
             inviteToken |-> "null", pendingSessionToken |-> NoToken]

\* an outbound frame: a, b are its numbers (token, position, size, expiry), r its word
Frame(to, type, a, b, r) == [to |-> to, type |-> type, a |-> a, b |-> b, r |-> r]

Cont(k, c, sid, tok, reason, val) ==
    [k |-> k, c |-> c, sid |-> sid, tok |-> tok, reason |-> reason, val |-> val]

NoInvite == [status |-> "none", useCount |-> 0, maxUses |-> 0, pastExpiry |-> FALSE,
             audits |-> <<>>]

Timer(kind, sid, c) == [kind |-> kind, sid |-> sid, c |-> c]

\* ---- Array helpers ----
Includes(q, x) == \E i \in 1..Len(q) : q[i] = x
\* Array.indexOf, 1-based; 0 when absent (JavaScript: -1)
IndexOf(q, x) ==
    IF Includes(q, x)
    THEN CHOOSE i \in 1..Len(q) : q[i] = x /\ \A j \in 1..(i - 1) : q[j] # x
    ELSE 0
\* Array.splice(i, 1)
Splice(q, i) == SubSeq(q, 1, i - 1) \o SubSeq(q, i + 1, Len(q))

\* ws.send: a frame to a socket that is no longer open is dropped
Send(s, f) ==
    IF s.clients[f.to].open THEN [s EXCEPT !.out = Append(@, f)] ELSE s

\* findClientWs: the open connection with this client id, if any
FindClientWs(s, clientId) == clientId \in Conn /\ s.clients[clientId].open

\* Map.set / Map.delete on state.sessionTokens
TokensSet(m, tok, sid) == {e \in m : e.tok # tok} \cup {[tok |-> tok, sid |-> sid]}
TokensDelete(m, tok) == {e \in m : e.tok # tok}

\* clearSessionToken
ClearSessionToken(s, tok) ==
    IF tok # NoToken
    THEN [s EXCEPT !.sessionTokens = TokensDelete(@, tok)]
    ELSE s

\* state.clearDisconnectGraceTimeout
ClearDisconnectGraceTimeout(s) ==
    IF s.disconnectGraceTimeout # 0
    THEN [s EXCEPT !.timers = {t \in @ : ~(t.kind = "grace" /\ t.c = s.disconnectGraceTimeout)},
                   !.disconnectGraceTimeout = 0]
    ELSE s

\* ChildProcess.kill(sig): a signal reaches only a process that is running
Kill(p, sig) == IF p.st = "running" THEN [p EXCEPT !.sigs = @ \cup {sig}] ELSE p

\* ---- services/queue.js: positions ----
SendQueuePosition(s, c) ==
    LET position == IndexOf(s.queue, c)
    IN Send(s, Frame(c, "queue_position", position, Len(s.queue),
                     ToString(position * AVERAGE_SESSION_MINUTES) \o " minutes"))

RECURSIVE BroadcastFrom(_, _)
BroadcastFrom(s, c) ==
    IF c > MaxConn THEN s
    ELSE BroadcastFrom(IF s.clients[c].open /\ s.clients[c].state = "queued"
                       THEN SendQueuePosition(s, c) ELSE s, c + 1)

\* broadcastQueueUpdate: state.clients is iterated in insertion (connection) order
BroadcastQueueUpdate(s) == BroadcastFrom(s, 1)

\* ---- services/session.js: startSession up to its await ----
\* ok: whether spawn() finds and starts ttyd; when it does not, the child's 'error'
\* event is emitted on the next tick (SpawnErrorHandler, run by Finish).
StartSession(s, c, ok) ==
    LET sid == Len(s.sessions) + 1
        queueIndex == IndexOf(s.queue, c)
        sessionToken == s.clients[c].pendingSessionToken
        session == [clientId |-> c, client |-> c, sessionId |-> sid,
                    sessionToken |-> sessionToken,
                    inviteToken |-> OrNull(s.clients[c].inviteToken),
                    ip |-> s.clients[c].ip, expiresAt |-> sid,
                    awaitingReconnect |-> FALSE, hardTimeout |-> TRUE]
        s1 == [s EXCEPT
                 !.queue = IF queueIndex # 0 THEN Splice(@, queueIndex) ELSE @,
                 !.clients[c].state = "active",
                 !.envFiles = @ \cup {sid},
                 !.ttyd = Append(@, [st |-> IF ok THEN "running" ELSE "spawnerr",
                                     sigs |-> {}]),
                 !.pendingSessionTokens =
                     IF sessionToken # NoToken
                     THEN {e \in @ : e.tok # sessionToken} ELSE @,
                 !.sessionTokens =
                     IF sessionToken # NoToken
                     THEN TokensSet(@, sessionToken, sid) ELSE @,
                 !.sessions = Append(@, session),
                 !.activeSession = sid,
                 !.timers = @ \cup {Timer("hard", sid, c), Timer("warning", sid, c),
                                    Timer("timeout", sid, c)},
                 !.held = @ \cup {c}]
        s2 == Send(s1, Frame(c, "session_starting", sessionToken, session.expiresAt, ""))
    IN [s2 EXCEPT !.redisq = Append(@, Cont("start_set", c, sid, "null", "", NoInvite))]

\* ---- services/queue.js: processQueue ----
RECURSIVE ProcessQueue(_, _)
ProcessQueue(s, ok) ==
    IF s.activeSession # 0 \/ s.queue = <<>> THEN s
    ELSE IF FindClientWs(s, Head(s.queue))
         THEN StartSession(s, Head(s.queue), ok)
         ELSE ProcessQueue([s EXCEPT !.queue = Tail(@)], ok)

\* ttydProcess.on('error'): the spawn failed
SpawnErrorHandler(s, sid) ==
    LET c == s.sessions[sid].client
        s1 == Send(s, Frame(c, "error", 0, 0, "Failed to start terminal"))
        s2 == [s1 EXCEPT !.clients[c].state = "connected",
                         !.envFiles = @ \ {sid},
                         !.ttyd[sid].st = "failed"]
    IN ProcessQueue(s2, TRUE)

\* The end of a macrotask: a pending 'error' event of a child spawned in it is
\* delivered before any other event.
Finish(s) ==
    IF \E sid \in 1..Len(s.ttyd) : s.ttyd[sid].st = "spawnerr"
    THEN SpawnErrorHandler(s, CHOOSE sid \in 1..Len(s.ttyd) : s.ttyd[sid].st = "spawnerr")
    ELSE s

\* ---- services/session.js: endSession ----
\* lines 375-392: notify the holder, then await redis.del
EndNotify(s, sid, clientId, reason) ==
    LET s1 == IF FindClientWs(s, clientId)
              THEN [Send(s, Frame(clientId, "session_ended", 0, 0, reason))
                       EXCEPT !.clients[clientId].state = "connected"]
              ELSE s
    IN [s1 EXCEPT !.redisq = Append(@, Cont("end_del", clientId, sid, "null", reason, NoInvite))]

\* the end of endSession without the promotion attempt
EndFinishNoPromotion(s, ok) == [s EXCEPT !.activeSession = 0]

\* lines 394-398: after redis.del
EndFinish(s, ok) == ProcessQueue([s EXCEPT !.activeSession = 0], ok)

\* lines 324-373: up to the first await
EndSession(s, reason) ==
    IF s.activeSession = 0 THEN s
    ELSE LET sid == s.activeSession
             session == s.sessions[sid]
             clientId == session.clientId
             s1 == [s EXCEPT
                      !.ttyd[sid] = Kill(@, "SIGTERM"),
                      !.timers = IF session.hardTimeout
                                 THEN {t \in @ : ~(t.kind = "hard" /\ t.sid = sid)} ELSE @,
                      !.sessions[sid].hardTimeout = FALSE,
                      !.envFiles = @ \ {sid}]
             s2 == ClearSessionToken(s1, session.sessionToken)
         IN IF session.inviteToken # "null"
            THEN [s2 EXCEPT !.redisq =
                      Append(@, Cont("end_get", clientId, sid, session.inviteToken,
                                     reason, NoInvite))]
            ELSE EndNotify(s2, sid, clientId, reason)

\* ---- services/invite.js ----
\* recordInviteUsage after its redis.get: the record to write back
UsedInvite(invite, session, endReason) ==
    LET useCount == invite.useCount + 1
    IN [invite EXCEPT
          !.audits = Append(@, [sessionId |-> session.sessionId,
                                clientId |-> session.clientId,
                                endReason |-> endReason]),
          !.useCount = useCount,
          !.status = IF useCount >= invite.maxUses THEN "used" ELSE @]

\* validateInvite with a rejoin test on pending entries that ignores the address
ValidateInviteAnyAddress(s, token, clientIp) ==
    LET invite == s.invites[token]
        a == s.activeSession
    IN IF invite.status = "none" THEN [valid |-> FALSE, reason |-> "not_found"]
       ELSE IF invite.status = "revoked" THEN [valid |-> FALSE, reason |-> "revoked"]
       ELSE IF invite.status = "used" \/ invite.useCount >= invite.maxUses
            THEN IF a # 0 /\ s.sessions[a].inviteToken = token /\ s.sessions[a].ip = clientIp
                 THEN [valid |-> TRUE, reason |-> "rejoin"]
                 ELSE IF \E e \in s.pendingSessionTokens : e.inviteToken = token
                      THEN [valid |-> TRUE, reason |-> "rejoin"]
                      ELSE [valid |-> FALSE, reason |-> "used"]
       ELSE IF invite.pastExpiry THEN [valid |-> FALSE, reason |-> "expired"]
       ELSE [valid |-> TRUE, reason |-> "valid"]

\* validateInvite testing the expiry before the use count
ValidateInviteExpiryFirst(s, token, clientIp) ==
    LET invite == s.invites[token]
        a == s.activeSession
    IN IF invite.status = "none" THEN [valid |-> FALSE, reason |-> "not_found"]
       ELSE IF invite.status = "revoked" THEN [valid |-> FALSE, reason |-> "revoked"]
       ELSE IF invite.pastExpiry THEN [valid |-> FALSE, reason |-> "expired"]
       ELSE IF invite.status = "used" \/ invite.useCount >= invite.maxUses
            THEN IF a # 0 /\ s.sessions[a].inviteToken = token /\ s.sessions[a].ip = clientIp
                 THEN [valid |-> TRUE, reason |-> "rejoin"]
                 ELSE IF \E e \in s.pendingSessionTokens :
                             e.inviteToken = token /\ e.ip = clientIp
                      THEN [valid |-> TRUE, reason |-> "rejoin"]
                      ELSE [valid |-> FALSE, reason |-> "used"]
       ELSE [valid |-> TRUE, reason |-> "valid"]

\* validateInvite after its redis.get (lines 36-107); the token passed the syntax test
ValidateInvite(s, token, clientIp) ==
    LET invite == s.invites[token]
        a == s.activeSession
    IN IF invite.status = "none" THEN [valid |-> FALSE, reason |-> "not_found"]
       ELSE IF invite.status = "revoked" THEN [valid |-> FALSE, reason |-> "revoked"]
       ELSE IF invite.status = "used" \/ invite.useCount >= invite.maxUses
            THEN IF a # 0 /\ s.sessions[a].inviteToken = token /\ s.sessions[a].ip = clientIp
                 THEN [valid |-> TRUE, reason |-> "rejoin"]
                 ELSE IF \E e \in s.pendingSessionTokens :
                             e.inviteToken = token /\ e.ip = clientIp
                      THEN [valid |-> TRUE, reason |-> "rejoin"]
                      ELSE [valid |-> FALSE, reason |-> "used"]
       ELSE IF invite.pastExpiry THEN [valid |-> FALSE, reason |-> "expired"]
       ELSE [valid |-> TRUE, reason |-> "valid"]

\* ---- services/queue.js: joinQueue ----
\* the reconnect path without clearDisconnectGraceTimeout
ReconnectKeepsTimer(s, c, inviteToken) ==
    LET a == s.activeSession
        sessionToken == s.sessions[a].sessionToken
        s1 == [s EXCEPT !.reconnectionInProgress = TRUE]
        s2 == [s1 EXCEPT !.sessions[a].clientId = c,
                         !.sessions[a].awaitingReconnect = FALSE,
                         !.clients[c].inviteToken = inviteToken,
                         !.clients[c].state = "active",
                         !.clients[c].pendingSessionToken = sessionToken,
                         !.held = IF Includes(s.admitted, c) THEN @ \cup {c} ELSE @]
        s3 == Send(s2, Frame(c, "session_token", sessionToken, 0, ""))
        s4 == Send(s3, Frame(c, "session_starting", sessionToken,
                             s.sessions[a].expiresAt, "reconnected"))
    IN [s4 EXCEPT !.reconnectionInProgress = FALSE]

\* lines 179-214: the reconnect path
Reconnect(s, c, inviteToken) ==
    LET a == s.activeSession
        sessionToken == s.sessions[a].sessionToken
        s1 == ClearDisconnectGraceTimeout([s EXCEPT !.reconnectionInProgress = TRUE])
        s2 == [s1 EXCEPT !.sessions[a].clientId = c,
                         !.sessions[a].awaitingReconnect = FALSE,
                         !.clients[c].inviteToken = inviteToken,
                         !.clients[c].state = "active",
                         !.clients[c].pendingSessionToken = sessionToken,
                         !.held = IF Includes(s.admitted, c) THEN @ \cup {c} ELSE @]
        s3 == Send(s2, Frame(c, "session_token", sessionToken, 0, ""))
        s4 == Send(s3, Frame(c, "session_starting", sessionToken,
                             s.sessions[a].expiresAt, "reconnected"))
    IN [s4 EXCEPT !.reconnectionInProgress = FALSE]

\* the admission with the size check off by one
JoinAdmitOffByOne(s, c, inviteToken, ok) ==
    IF Len(s.queue) > MAX_QUEUE_SIZE
    THEN Send(s, Frame(c, "queue_full", 0, 0, ""))
    ELSE LET pendingToken == s.nextTok
             s1 == [s EXCEPT
                      !.nextTok = @ + 1,
                      !.joins = IF Truthy(inviteToken) THEN @ ELSE @ + 1,
                      !.pendingSessionTokens = {e \in @ : e.tok # pendingToken} \cup
                          {[tok |-> pendingToken, clientId |-> c,
                            inviteToken |-> OrNull(inviteToken), ip |-> s.clients[c].ip]},
                      !.clients[c].pendingSessionToken = pendingToken]
             s2 == Send(s1, Frame(c, "session_token", pendingToken, 0, ""))
             s3 == [s2 EXCEPT !.queue = Append(@, c),
                              !.clients[c].state = "queued",
                              !.admitted = IF Includes(@, c) THEN @ ELSE Append(@, c)]
             s4 == IF s3.activeSession = 0 /\ s3.queue[1] = c
                   THEN StartSession(s3, c, ok)
                   ELSE SendQueuePosition(s3, c)
         IN BroadcastQueueUpdate(s4)

\* the admission that starts a session for the queue head without looking at the slot
JoinAdmitSlotUnchecked(s, c, inviteToken, ok) ==
    IF Len(s.queue) >= MAX_QUEUE_SIZE
    THEN Send(s, Frame(c, "queue_full", 0, 0, ""))
    ELSE LET pendingToken == s.nextTok
             s1 == [s EXCEPT
                      !.nextTok = @ + 1,
                      !.joins = IF Truthy(inviteToken) THEN @ ELSE @ + 1,
                      !.pendingSessionTokens = {e \in @ : e.tok # pendingToken} \cup
                          {[tok |-> pendingToken, clientId |-> c,
                            inviteToken |-> OrNull(inviteToken), ip |-> s.clients[c].ip]},
                      !.clients[c].pendingSessionToken = pendingToken]
             s2 == Send(s1, Frame(c, "session_token", pendingToken, 0, ""))
             s3 == [s2 EXCEPT !.queue = Append(@, c),
                              !.clients[c].state = "queued",
                              !.admitted = IF Includes(@, c) THEN @ ELSE Append(@, c)]
             s4 == IF s3.queue[1] = c
                   THEN StartSession(s3, c, ok)
                   ELSE SendQueuePosition(s3, c)
         IN BroadcastQueueUpdate(s4)

\* lines 239-278: size check, pending token, push, start or position, broadcast
JoinAdmit(s, c, inviteToken, ok) ==
    IF Len(s.queue) >= MAX_QUEUE_SIZE
    THEN Send(s, Frame(c, "queue_full", 0, 0, ""))
    ELSE LET pendingToken == s.nextTok
             s1 == [s EXCEPT
                      !.nextTok = @ + 1,
                      !.joins = IF Truthy(inviteToken) THEN @ ELSE @ + 1,
                      !.pendingSessionTokens = {e \in @ : e.tok # pendingToken} \cup
                          {[tok |-> pendingToken, clientId |-> c,
                            inviteToken |-> OrNull(inviteToken), ip |-> s.clients[c].ip]},
                      !.clients[c].pendingSessionToken = pendingToken]
             s2 == Send(s1, Frame(c, "session_token", pendingToken, 0, ""))
             s3 == [s2 EXCEPT !.queue = Append(@, c),
                              !.clients[c].state = "queued",
                              !.admitted = IF Includes(@, c) THEN @ ELSE Append(@, c)]
             s4 == IF s3.activeSession = 0 /\ s3.queue[1] = c
                   THEN StartSession(s3, c, ok)
                   ELSE SendQueuePosition(s3, c)
         IN BroadcastQueueUpdate(s4)

\* lines 165-237: up to the await of validateInvite
JoinQueue(s, c, inviteToken, ok) ==
    LET a == s.activeSession
    IN IF s.reconnectionInProgress
       THEN Send(s, Frame(c, "error", 0, 0, "Reconnection already in progress"))
       ELSE IF a # 0 /\ s.sessions[a].awaitingReconnect
               /\ s.sessions[a].inviteToken = inviteToken
               /\ s.sessions[a].ip = s.clients[c].ip
       THEN Reconnect(s, c, inviteToken)
       ELSE IF Includes(s.queue, c)
       THEN Send(s, Frame(c, "error", 0, 0, "Already in queue"))
       ELSE IF Truthy(inviteToken) /\ ~WellFormed(inviteToken)
       THEN Send(s, Frame(c, "invite_invalid", 0, 0, "invalid"))
       ELSE IF Truthy(inviteToken)
       THEN [s EXCEPT !.joins = @ + 1,
                      !.redisq = Append(@, Cont("join", c, 0, inviteToken, "", NoInvite))]
       ELSE JoinAdmit(s, c, inviteToken, ok)

\* joinQueue after the redis.get of validateInvite (lines 226-237, then 239-278)
JoinResume(s, h, ok) ==
    LET validation == ValidateInvite(s, h.tok, s.clients[h.c].ip)
    IN IF validation.reason = "expired"
       THEN [s EXCEPT !.redisq = Append(@, Cont("val_ttl", h.c, 0, h.tok, "",
                                  [s.invites[h.tok] EXCEPT !.status = "expired"]))]
       ELSE IF ~validation.valid
       THEN Send(s, Frame(h.c, "invite_invalid", 0, 0, validation.reason))
       ELSE JoinAdmit([s EXCEPT !.clients[h.c].inviteToken = h.tok], h.c, h.tok, ok)

\* leaveQueue answering left_queue also when the id is not queued
LeaveQueueAlwaysAcks(s, c) ==
    LET queueIndex == IndexOf(s.queue, c)
    IN IF queueIndex # 0
       THEN BroadcastQueueUpdate(
              Send([s EXCEPT !.queue = Splice(@, queueIndex),
                             !.clients[c].state = "connected",
                             !.gone = @ \cup {c}],
                   Frame(c, "left_queue", 0, 0, "")))
       ELSE Send(s, Frame(c, "left_queue", 0, 0, ""))

\* leaveQueue
LeaveQueue(s, c) ==
    LET queueIndex == IndexOf(s.queue, c)
    IN IF queueIndex # 0
       THEN BroadcastQueueUpdate(
              Send([s EXCEPT !.queue = Splice(@, queueIndex),
                             !.clients[c].state = "connected",
                             !.gone = @ \cup {c}],
                   Frame(c, "left_queue", 0, 0, "")))
       ELSE s

\* ---- handlers/websocket.js ----
\* handleDisconnect.  The socket is closed when 'close' is emitted, so no frame of
\* this handler reaches c: open is cleared first (the handler reads state.clients
\* only to broadcast).
HandleDisconnect(s, c) ==
    LET a == s.activeSession
        isHolder == a # 0 /\ s.sessions[a].clientId = c
        pendingSessionToken == s.clients[c].pendingSessionToken
        queueIndex == IndexOf(s.queue, c)
        s0 == [s EXCEPT !.clients[c].open = FALSE, !.gone = @ \cup {c}]
        s1 == IF pendingSessionToken # NoToken /\ ~isHolder
              THEN [s0 EXCEPT !.pendingSessionTokens = {e \in @ : e.tok # pendingSessionToken}]
              ELSE s0
        s2 == IF queueIndex # 0
              THEN BroadcastQueueUpdate([s1 EXCEPT !.queue = Splice(@, queueIndex)])
              ELSE s1
    IN IF isHolder
       THEN LET s3 == ClearDisconnectGraceTimeout(
                         [s2 EXCEPT !.sessions[a].awaitingReconnect = TRUE])
            IN [s3 EXCEPT !.timers = @ \cup {Timer("grace", a, c)},
                          !.disconnectGraceTimeout = c]
       ELSE s2

\* the grace timer's callback ending the session with the wrong reason
GraceTimeoutWrongReason(s) ==
    LET a == s.activeSession
        s1 == IF a # 0 /\ s.sessions[a].awaitingReconnect
              THEN EndSession(s, "timeout") ELSE s
    IN [s1 EXCEPT !.disconnectGraceTimeout = 0]

\* the grace timer's callback (lines 113-120)
GraceTimeout(s) ==
    LET a == s.activeSession
        s1 == IF a # 0 /\ s.sessions[a].awaitingReconnect
              THEN EndSession(s, "disconnected") ELSE s
    IN [s1 EXCEPT !.disconnectGraceTimeout = 0]

\* ---- services/session.js: timers and the exit handler ----
SessionWarning(s, t) ==
    LET a == s.activeSession
    IN IF a # 0 /\ s.sessions[a].clientId = t.c
       THEN Send(s, Frame(t.c, "session_warning", 5, 0, "")) ELSE s

SessionTimeout(s, t) ==
    LET a == s.activeSession
    IN IF a # 0 /\ s.sessions[a].clientId = t.c
       THEN EndSession(s, "timeout") ELSE s

HardTimeout(s, t) ==
    LET a == s.activeSession
    IN IF a # 0 /\ s.sessions[a].clientId = t.c
       THEN [s EXCEPT !.ttyd[a] = Kill(@, "SIGKILL")] ELSE s

\* ttydProcess.on('exit') of session sid's process
TtydExit(s, sid) ==
    LET a == s.activeSession
        s1 == IF a # 0 /\ s.sessions[a].hardTimeout
              THEN [s EXCEPT !.timers = {t \in @ : ~(t.kind = "hard" /\ t.sid = a)},
                             !.sessions[a].hardTimeout = FALSE]
              ELSE s
    IN IF a # 0 /\ s.sessions[a].clientId = s.sessions[sid].client
       THEN EndSession(s1, "container_exit") ELSE s1

\* ---- routes/session.js: GET /api/session/validate ----
\* Map.get on state.sessionTokens; 0 when absent (JavaScript: undefined)
TokensGet(m, tok) ==
    IF \E e \in m : e.tok = tok THEN (CHOOSE e \in m : e.tok = tok).sid ELSE 0

\* res.status(status).send(...): the response, sent to the HTTP requester (to = 0)
Respond(s, status, cookie) ==
    [s EXCEPT !.out = Append(@, Frame(0, "http", status, cookie, ""))]

\* the route without the test of the pending-token map
SessionValidateNoPending(s, sessionCookie) ==
    LET sessionId == TokensGet(s.sessionTokens, sessionCookie)
        a == s.activeSession
    IN IF sessionCookie = NoToken THEN Respond(s, 401, sessionCookie)
       ELSE IF sessionId # 0 /\ a # 0 /\ s.sessions[a].sessionId = sessionId
       THEN Respond(s, 200, sessionCookie)
       ELSE Respond([s EXCEPT !.sessionTokens = TokensDelete(@, sessionCookie)],
                    401, sessionCookie)

SessionValidate(s, sessionCookie) ==
    LET sessionId == TokensGet(s.sessionTokens, sessionCookie)
        a == s.activeSession
    IN IF sessionCookie = NoToken THEN Respond(s, 401, sessionCookie)
       ELSE IF sessionId # 0 /\ a # 0 /\ s.sessions[a].sessionId = sessionId
       THEN Respond(s, 200, sessionCookie)
       ELSE IF \E e \in s.pendingSessionTokens : e.tok = sessionCookie
       THEN Respond(s, 200, sessionCookie)
       ELSE Respond([s EXCEPT !.sessionTokens = TokensDelete(@, sessionCookie)],
                    401, sessionCookie)

\* ---- routes/session.js: GET /api/invite/validate ----
\* res.status(status).json({valid, reason}): the response to the HTTP requester
RespondJson(s, status, reason) ==
    [s EXCEPT !.out = Append(@, Frame(0, "http", status, 0, reason))]

\* up to the first await of validateInvite; a suspended request keeps the
\* requester's address in the field `reason`
InviteValidate(s, token, clientIp) ==
    IF ~Truthy(token) THEN RespondJson(s, 401, "missing")
    ELSE IF ~WellFormed(token) THEN RespondJson(s, 401, "invalid")
    ELSE [s EXCEPT !.redisq = Append(@, Cont("http_get", 0, 0, token, clientIp, NoInvite))]

\* after the redis.get of validateInvite
InviteValidateResume(s, h) ==
    LET validation == ValidateInvite(s, h.tok, h.reason)
    IN IF validation.reason = "expired"
       THEN [s EXCEPT !.redisq = Append(@, [h EXCEPT !.k = "http_ttl",
                                  !.val = [s.invites[h.tok] EXCEPT !.status = "expired"]])]
       ELSE IF validation.valid THEN RespondJson(s, 200, "")
       ELSE RespondJson(s, 401, validation.reason)

\* ---- a Redis reply resumes the oldest suspended handler ----
Resume(s, h, ok) ==
    CASE h.k = "join" -> JoinResume(s, h, ok)
      [] h.k = "val_ttl" ->
           [s EXCEPT !.redisq = Append(@, [h EXCEPT !.k = "val_set"])]
      [] h.k = "val_set" ->
           Send([s EXCEPT !.invites[h.tok] = h.val],
                Frame(h.c, "invite_invalid", 0, 0, "expired"))
      [] h.k = "http_get" -> InviteValidateResume(s, h)
      [] h.k = "http_ttl" ->
           [s EXCEPT !.redisq = Append(@, [h EXCEPT !.k = "http_set"])]
      [] h.k = "http_set" ->
           RespondJson([s EXCEPT !.invites[h.tok] = h.val], 401, "expired")
      [] h.k = "start_set" -> s
      [] h.k = "end_get" ->
           IF s.invites[h.tok].status = "none"
           THEN EndNotify(s, h.sid, h.c, h.reason)
           ELSE [s EXCEPT !.redisq = Append(@, [h EXCEPT !.k = "end_set",
                     !.val = UsedInvite(s.invites[h.tok], s.sessions[h.sid], h.reason)])]
      [] h.k = "end_set" ->
           EndNotify([s EXCEPT !.invites[h.tok] = h.val], h.sid, h.c, h.reason)
      [] h.k = "end_del" ->
           IF h.reason = "shutdown"
           THEN [EndFinish(s, ok) EXCEPT !.listening = FALSE]
           ELSE EndFinish(s, ok)

\* ---- objects nothing refers to any more ----
\* A session object is referred to by state.activeSession and by suspended endSession
\* and startSession calls; a client object by state.clients (until 'close'), by a
\* suspended joinQueue and, through its id, by the active session.
Referenced(s, sid) ==
    s.activeSession = sid \/ \E i \in 1..Len(s.redisq) : s.redisq[i].sid = sid

DeadClient(s, c) ==
    /\ ~s.clients[c].open
    /\ ~\E i \in 1..Len(s.redisq) : s.redisq[i].k = "join" /\ s.redisq[i].c = c
    /\ ~(s.activeSession # 0 /\ s.sessions[s.activeSession].clientId = c)

\* state.clients.delete(ws) at the end of handleDisconnect, and what the collector
\* frees: fields nothing can read any more take one fixed value, timers whose
\* callback can only find its client gone are dropped.
Collect(s) ==
    [s EXCEPT
       !.sessions = [sid \in 1..Len(s.sessions) |->
                       IF Referenced(s, sid) THEN s.sessions[sid]
                       ELSE [s.sessions[sid] EXCEPT !.clientId = s.sessions[sid].client,
                                                    !.awaitingReconnect = FALSE,
                                                    !.hardTimeout = FALSE]],
       !.ttyd = [sid \in 1..Len(s.ttyd) |->
                       IF s.ttyd[sid].st = "running" THEN s.ttyd[sid]
                       ELSE [s.ttyd[sid] EXCEPT !.sigs = {}]],
       !.timers = {t \in @ : t.kind = "grace" \/ ~DeadClient(s, t.c)},
       !.clients = [c \in Conn |->
                       IF s.clients[c].state # "none" /\ DeadClient(s, c)
                       THEN [open |-> FALSE, state |-> "closed", ip |-> "none",
                             inviteToken |-> "null", pendingSessionToken |-> NoToken]
                       ELSE s.clients[c]]]

\* ---- the state machine ----
Begin(op, c, sid, arg) ==
    [Cur EXCEPT !.out = <<>>, !.last = [op |-> op, c |-> c, sid |-> sid, arg |-> arg]]

\* a step to state n, within the bounds; ok is only a choice when a spawn happened;
\* nothing happens in a process that has exited
Step(n, ok) ==
    /\ listening
    /\ Len(n.sessions) <= lim.sessions
    /\ n.joins <= lim.joins
    /\ Len(n.redisq) <= MaxInflight
    /\ ok \/ (lim.spawnFails /\ Len(n.sessions) > Len(sessions))
    /\ Apply(Collect(Finish(n)))

\* the coordinator after construction; the invite store is filled out of band
StartState ==
    /\ clients = [c \in Conn |-> NoClient]
    /\ queue = <<>>
    /\ activeSession = 0
    /\ sessions = <<>>
    /\ ttyd = <<>>
    /\ envFiles = {}
    /\ sessionTokens = {}
    /\ pendingSessionTokens = {}
    /\ disconnectGraceTimeout = 0
    /\ reconnectionInProgress = FALSE
    /\ timers = {}
    /\ redisq = <<>>
    /\ nextConn = 1
    /\ nextTok = 1
    /\ joins = 0
    /\ out = <<>>
    /\ last = [op |-> "init", c |-> 0, sid |-> 0, arg |-> ""]
    /\ admitted = <<>>
    /\ held = {}
    /\ gone = {}
    /\ listening = TRUE

Start ==
    /\ StartState
    /\ invites = [t \in {"T1"} |-> [status |-> "active", useCount |-> 0, maxUses |-> 1,
                                   pastExpiry |-> FALSE, audits |-> <<>>]]

Init ==
    /\ Start
    /\ lim = [conn |-> SoloConn, sessions |-> SoloSessions, joins |-> SoloJoins,
              ips |-> IPs, spawnFails |-> TRUE]

InitPair ==
    /\ Start
    /\ lim = [conn |-> PairConn, sessions |-> PairSessions, joins |-> PairJoins,
              ips |-> IPs, spawnFails |-> FALSE]

InitQueue ==
    /\ Start
    /\ lim = [conn |-> QueueConn, sessions |-> QueueSessions, joins |-> QueueJoins,
              ips |-> {"ip1"}, spawnFails |-> FALSE]

\* wss.on('connection')
Connect(ip) ==
    /\ nextConn <= lim.conn
    /\ ip \in lim.ips
    /\ nextConn = 1 => ip = "ip1"
    /\ LET c == nextConn
           s == [Begin("connect", c, 0, ip) EXCEPT
                   !.nextConn = @ + 1,
                   !.clients[c] = [open |-> TRUE, state |-> "connected", ip |-> ip,
                                   inviteToken |-> "null",
                                   pendingSessionToken |-> NoToken]]
       IN Step(Send(s, Frame(c, "status", Len(queue),
                             IF activeSession # 0 THEN 1 ELSE 0, "")), TRUE)

\* ws.on('close')
Disconnect(c) ==
    /\ clients[c].open
    /\ Step(HandleDisconnect(Begin("disconnect", c, 0, ""), c), TRUE)

\* ws.on('message') with {type: "join_queue", inviteToken}
JoinQueueMsg(c, inviteToken, ok) ==
    /\ clients[c].open
    /\ Step(JoinQueue(Begin("join_queue", c, 0, inviteToken), c, inviteToken, ok), ok)

\* ws.on('message') with {type: "leave_queue"}
LeaveQueueMsg(c) ==
    /\ clients[c].open
    /\ Step(LeaveQueue(Begin("leave_queue", c, 0, ""), c), TRUE)

RedisReply(ok) ==
    /\ redisq # <<>>
    /\ LET h == Head(redisq)
       IN Step(Resume([Begin(h.k, h.c, h.sid, h.tok) EXCEPT !.redisq = Tail(@)], h, ok), ok)

\* ---- server.js: process.on('SIGTERM') ----
\* The handler up to its await: with no active session it goes straight on to
\* wss.close, server.close and process.exit; otherwise these follow the completion
\* of endSession('shutdown'), in Resume.
OnSigterm(s) ==
    LET s1 == ClearDisconnectGraceTimeout(s)
    IN IF s1.activeSession # 0
       THEN EndSession(s1, "shutdown")
       ELSE [s1 EXCEPT !.listening = FALSE]

\* the process receives SIGTERM
Sigterm == Step(OnSigterm(Begin("sigterm", 0, activeSession, "")), TRUE)

\* ---- a store call that fails: the awaited promise rejects ----
\* joinQueue does not catch a rejection of validateInvite, so it reaches the message
\* listener's catch, which answers with an error frame; recordInviteUsage catches and
\* logs, and endSession goes on; startSession's catch reports, resets the client and
\* removes the credential file; a rejected redis.del leaves endSession unfinished;
\* the HTTP route has no catch and the request stays unanswered. The redis.del of
\* an end whose audit entry was lost carries the word "unrecorded".
RejectResume(s, h) ==
    CASE h.k \in {"join", "val_ttl", "val_set"} ->
           Send(s, Frame(h.c, "error", 0, 0, "Invalid message format"))
      [] h.k \in {"end_get", "end_set"} ->
           LET s1 == EndNotify(s, h.sid, h.c, h.reason)
           IN [s1 EXCEPT !.redisq[Len(s1.redisq)].tok = "unrecorded"]
      [] h.k = "start_set" ->
           LET s1 == Send(s, Frame(h.c, "error", 0, 0, "Failed to start demo session"))
           IN ProcessQueue([s1 EXCEPT !.clients[h.c].state = "connected",
                                      !.envFiles = @ \ {h.sid}], TRUE)
      [] OTHER -> s

\* the oldest outstanding store call fails
RedisFails ==
    /\ redisq # <<>>
    /\ LET h == Head(redisq)
       IN Step(RejectResume([Begin("rejected", h.c, h.sid, h.k) EXCEPT !.redisq = Tail(@)], h),
               TRUE)

\* GET /api/session/validate with this demo_session cookie (NoToken: no cookie)
ValidateGet(sessionCookie) ==
    Step(SessionValidate(Begin("validate", 0, 0, ""), sessionCookie), TRUE)

\* GET /api/invite/validate with this token from this address
InviteValidateGet(token, ip) ==
    Step(InviteValidate(Begin("invite_validate", 0, 0, token), token, ip), TRUE)

\* Timers of one kind have one delay, so they fire in the order they were armed;
\* a session's warning, timeout and hard timeout fire in this order.
Earlier(kind) ==
    CASE kind = "timeout" -> "warning"
      [] kind = "hard" -> "timeout"
      [] OTHER -> "none"

CanFire(t) ==
    /\ t \in timers
    /\ \A u \in timers : u.kind = t.kind => u.sid >= t.sid
    /\ \A u \in timers : ~(u.kind = Earlier(t.kind) /\ u.sid = t.sid)

Fired(t) == [Begin(t.kind, t.c, t.sid, "") EXCEPT !.timers = @ \ {t}]

WarningFires(t) ==
    /\ t.kind = "warning" /\ CanFire(t)
    /\ Step(SessionWarning(Fired(t), t), TRUE)

TimeoutFires(t) ==
    /\ t.kind = "timeout" /\ CanFire(t)
    /\ Step(SessionTimeout(Fired(t), t), TRUE)

HardTimeoutFires(t) ==
    /\ t.kind = "hard" /\ CanFire(t)
    /\ Step(HardTimeout(Fired(t), t), TRUE)

GraceFires(t) ==
    /\ t.kind = "grace" /\ t \in timers
    /\ Step(GraceTimeout(Fired(t)), TRUE)

\* the ttyd process of session sid exits, by itself or after a signal
TtydExits(sid) ==
    /\ sid \in 1..Len(ttyd)
    /\ ttyd[sid].st = "running"
    /\ Step(TtydExit([Begin("exit", sessions[sid].client, sid, "") EXCEPT
                        !.ttyd[sid].st = "exited"], sid), TRUE)

Next ==
    \/ \E ip \in IPs : Connect(ip)
    \/ \E c \in Conn : Disconnect(c)
    \/ \E c \in Conn, tok \in InviteInputs, ok \in BOOLEAN : JoinQueueMsg(c, tok, ok)
    \/ \E c \in Conn : LeaveQueueMsg(c)
    \/ \E ok \in BOOLEAN : RedisReply(ok)
    \/ \E t \in timers : WarningFires(t)
    \/ \E t \in timers : TimeoutFires(t)
    \/ \E t \in timers : HardTimeoutFires(t)
    \/ \E t \in timers : GraceFires(t)
    \/ \E sid \in 1..Len(ttyd) : TtydExits(sid)

Spec == Init /\ [][Next]_vars

SpecPair == InitPair /\ [][Next]_vars

\* the queue exploration: the clients' events and the Redis replies, within the
\* session's first hour and the holder's grace window
NextQueue ==
    \/ \E ip \in IPs : Connect(ip)
    \/ \E c \in Conn : Disconnect(c)
    \/ \E c \in Conn, tok \in InviteInputs, ok \in BOOLEAN : JoinQueueMsg(c, tok, ok)
    \/ \E c \in Conn : LeaveQueueMsg(c)
    \/ \E ok \in BOOLEAN : RedisReply(ok)

SpecQueue == InitQueue /\ [][NextQueue]_vars

InitFull ==
    /\ Start
    /\ lim = [conn |-> FullConn, sessions |-> FullSessions, joins |-> FullJoins,
              ips |-> IPs, spawnFails |-> FALSE]

SpecFull == InitFull /\ [][NextQueue]_vars

\* the invite exploration: the record stored under invite:T1 is any record the
\* out-of-band tooling or an earlier run of the coordinator can have left there
\* (or none); every join presents T1
InviteRecords ==
    {r \in [status : {"active", "used", "revoked", "expired"},
            useCount : 0..MaxStoredUses, maxUses : 1..MaxStoredUses,
            pastExpiry : BOOLEAN, audits : {<<>>}] :
        /\ r.useCount <= r.maxUses
        /\ r.status = "expired" => r.pastExpiry} \cup {NoInvite}

InitInvite ==
    /\ StartState
    /\ invites \in [{"T1"} -> InviteRecords]
    /\ lim = [conn |-> InviteConn, sessions |-> InviteSessions, joins |-> InviteJoins,
              ips |-> IPs, spawnFails |-> FALSE]

NextInvite ==
    \/ \E ip \in IPs : Connect(ip)
    \/ \E c \in Conn : Disconnect(c)
    \/ \E c \in Conn, ok \in BOOLEAN : JoinQueueMsg(c, "T1", ok)
    \/ \E ok \in BOOLEAN : RedisReply(ok)
    \/ \E sid \in 1..Len(ttyd) : TtydExits(sid)

SpecInvite == InitInvite /\ [][NextInvite]_vars

\* the validation exploration: one connection, any stored record, joins and
\* GET /api/invite/validate with well-formed and malformed tokens
PresentedTokens == {"T1", "abc", "bad token!"}

InitRoute ==
    /\ StartState
    /\ invites \in [{"T1"} -> InviteRecords]
    /\ lim = [conn |-> RouteConn, sessions |-> RouteSessions, joins |-> RouteJoins,
              ips |-> IPs, spawnFails |-> FALSE]

NextRoute ==
    \/ \E ip \in IPs : Connect(ip)
    \/ \E c \in Conn : Disconnect(c)
    \/ \E c \in Conn, tok \in PresentedTokens, ok \in BOOLEAN : JoinQueueMsg(c, tok, ok)
    \/ \E ok \in BOOLEAN : RedisReply(ok)
    \/ \E sid \in 1..Len(ttyd) : TtydExits(sid)
    \/ \E tok \in PresentedTokens \cup {"undefined"}, ip \in IPs : InviteValidateGet(tok, ip)

SpecRoute == InitRoute /\ [][NextRoute]_vars


\* the token exploration: joins with inviteToken null, every way a session ends, and the
\* validation route asked about every token minted so far (or without cookie)
InitToken ==
    /\ Start
    /\ lim = [conn |-> TokenConn, sessions |-> TokenSessions, joins |-> TokenJoins,
              ips |-> {"ip1"}, spawnFails |-> FALSE]

NextToken ==
    \/ \E ip \in IPs : Connect(ip)
    \/ \E c \in Conn : Disconnect(c)
    \/ \E c \in Conn, ok \in BOOLEAN : JoinQueueMsg(c, "null", ok)
    \/ \E c \in Conn : LeaveQueueMsg(c)
    \/ \E ok \in BOOLEAN : RedisReply(ok)
    \/ \E t \in timers : WarningFires(t)
    \/ \E t \in timers : TimeoutFires(t)
    \/ \E t \in timers : GraceFires(t)
    \/ \E sid \in 1..Len(ttyd) : TtydExits(sid)
    \/ \E cookie \in 0..(nextTok - 1) : ValidateGet(cookie)

SpecToken == InitToken /\ [][NextToken]_vars

\* ---- three connections behind one address, with timers that fire and store calls
\* that complete ----
InitLive ==
    /\ Start
    /\ lim = [conn |-> LiveConn, sessions |-> LiveSessions, joins |-> LiveJoins,
              ips |-> {"ip1"}, spawnFails |-> FALSE]

NextLive ==
    \/ \E ip \in IPs : Connect(ip)
    \/ \E c \in Conn : Disconnect(c)
    \/ \E c \in Conn, ok \in BOOLEAN : JoinQueueMsg(c, "null", ok)
    \/ \E ok \in BOOLEAN : RedisReply(ok)
    \/ \E t \in timers : WarningFires(t)
    \/ \E t \in timers : TimeoutFires(t)
    \/ \E t \in timers : HardTimeoutFires(t)
    \/ \E t \in timers : GraceFires(t)
    \/ \E sid \in 1..Len(ttyd) : TtydExits(sid)

\* The firing of a timer of this kind, told by what the callback's step records in
\* last: the record names the timer, a timer is armed once and fires once, and only
\* the callback of a timer of this kind records it.
TimerFires(kind) ==
    \E t \in timers :
        /\ t.kind = kind
        /\ kind = "grace" \/ CanFire(t)
        /\ last' = [op |-> kind, c |-> t.c, sid |-> t.sid, arg |-> ""]

\* An armed timer fires in the end. An outstanding store call is answered in the
\* end: calls stay outstanding for ever only if replies keep arriving.
Fairness ==
    /\ WF_last(TimerFires("warning"))
    /\ WF_last(TimerFires("timeout"))
    /\ WF_last(TimerFires("hard"))
    /\ WF_last(TimerFires("grace"))
    /\ []<>(redisq = <<>>) \/ []<><<\E ok \in BOOLEAN : RedisReply(ok)>>_vars

SpecLive == InitLive /\ [][NextLive]_vars /\ Fairness

\* ---- the coordinator until its shutdown ----
InitShutdown ==
    /\ Start
    /\ lim = [conn |-> ShutdownConn, sessions |-> ShutdownSessions,
              joins |-> ShutdownJoins, ips |-> {"ip1"}, spawnFails |-> FALSE]

NextShutdown ==
    \/ \E ip \in IPs : Connect(ip)
    \/ \E c \in Conn : Disconnect(c)
    \/ \E c \in Conn, tok \in {"null", "T1"}, ok \in BOOLEAN : JoinQueueMsg(c, tok, ok)
    \/ \E ok \in BOOLEAN : RedisReply(ok)
    \/ \E t \in timers : GraceFires(t)
    \/ \E sid \in 1..Len(ttyd) : TtydExits(sid)
    \/ Sigterm

SpecShutdown == InitShutdown /\ [][NextShutdown]_vars

\* ---- the coordinator with a store whose calls may fail ----
InitFail ==
    /\ Start
    /\ lim = [conn |-> FailConn, sessions |-> FailSessions, joins |-> FailJoins,
              ips |-> {"ip1"}, spawnFails |-> FALSE]

NextFail ==
    \/ \E ip \in IPs : Connect(ip)
    \/ \E c \in Conn : Disconnect(c)
    \/ \E c \in Conn, tok \in {"null", "T1"}, ok \in BOOLEAN : JoinQueueMsg(c, tok, ok)
    \/ \E ok \in BOOLEAN : RedisReply(ok)
    \/ RedisFails
    \/ \E t \in timers : GraceFires(t)
    \/ \E sid \in 1..Len(ttyd) : TtydExits(sid)

SpecFail == InitFail /\ [][NextFail]_vars

\* ---- what the claims speak of ----
\* a session is live: its subprocess was spawned, runs, and endSession has not sent
\* it the termination signal
Live(sid) == ttyd[sid].st = "running" /\ "SIGTERM" \notin ttyd[sid].sigs

\* after the step, an endSession of session sid with this reason is under way
EndingNext(sid, reason) ==
    \E i \in 1..Len(redisq') :
        /\ redisq'[i].k \in {"end_get", "end_set", "end_del"}
        /\ redisq'[i].sid = sid
        /\ redisq'[i].reason = reason

\* the step is the firing of a timer of this kind
Fires(kind, t) ==
    /\ t \in timers /\ t.kind = kind /\ t \notin timers'
    /\ last' = [op |-> kind, c |-> t.c, sid |-> t.sid, arg |-> ""]

\* the step is the exit of the subprocess of session sid
Exits(sid) ==
    /\ sid \in 1..Len(ttyd) /\ ttyd[sid].st = "running" /\ ttyd'[sid].st = "exited"
    /\ last'.op = "exit" /\ last'.sid = sid

\* the first id of the queue whose connection is open, 0 if there is none
FirstLive(q, cl) ==
    IF \E i \in 1..Len(q) : cl[q[i]].open
    THEN q[CHOOSE i \in 1..Len(q) : cl[q[i]].open /\ \A j \in 1..(i - 1) : ~cl[q[j]].open]
    ELSE 0

\* C1: at most one session is live at any time, under every interleaving of joins,
\* disconnects, timers, subprocess exits and Redis completions.
C1_AtMostOneLive == Cardinality({sid \in 1..Len(ttyd) : Live(sid)}) <= 1

\* C2: FIFO fairness. If A was admitted to the queue before B and neither has
\* disconnected or left, then B holds the active slot only after A has held it.
C2_FifoFairness ==
    \A i, j \in 1..Len(admitted) :
        (i < j /\ admitted[i] \notin gone /\ admitted[j] \notin gone
               /\ admitted[j] \in held) => admitted[i] \in held

\* C3: no client id occurs more than once in the queue.
C3_QueueUnique == \A i, j \in 1..Len(queue) : queue[i] = queue[j] => i = j

\* C4: the client id of the active session is never also an element of the queue.
C4_OneRole == activeSession # 0 => ~Includes(queue, sessions[activeSession].clientId)

\* the join_queue of the step, or the joinQueue it resumes, reaches the size check
\* (lines 239-246): c is not in the queue, the message is no reconnect, and its
\* invite, if it carries one, has been found valid
DirectAtSizeCheck ==
    /\ last'.op = "join_queue"
    /\ ~Truthy(last'.arg)
    /\ ~Includes(queue, last'.c)
    /\ ~(/\ activeSession # 0
         /\ sessions[activeSession].awaitingReconnect
         /\ sessions[activeSession].inviteToken = last'.arg
         /\ sessions[activeSession].ip = clients[last'.c].ip)

ResumedAtSizeCheck ==
    /\ last'.op = "join"
    /\ redisq # <<>>
    /\ Head(redisq).k = "join"
    /\ ValidateInvite(Cur, Head(redisq).tok, clients[Head(redisq).c].ip).valid

\* the step leaves the queue, both token maps, the active session and the state
\* field of client c as they were
NothingAdmitted(c) ==
    /\ queue' = queue
    /\ sessionTokens' = sessionTokens
    /\ pendingSessionTokens' = pendingSessionTokens
    /\ activeSession' = activeSession
    /\ sessions' = sessions
    /\ clients[c].open => clients'[c].state = clients[c].state

\* C5 as stated: every join_queue processed while the queue holds MAX_QUEUE_SIZE ids
\* is answered with queue_full and changes nothing.
C5_EveryJoinWhenFull ==
    [][(last'.op = "join_queue" /\ Len(queue) >= MAX_QUEUE_SIZE)
         => (/\ out' = <<Frame(last'.c, "queue_full", 0, 0, "")>>
             /\ NothingAdmitted(last'.c))]_vars

\* C5, amended: the queue never holds more than MAX_QUEUE_SIZE ids, and a join_queue
\* that reaches the size check while the queue holds MAX_QUEUE_SIZE ids is answered
\* with queue_full alone (when its connection is still open) and leaves the queue,
\* both token maps, the active session and the client's state field unchanged.
C5_QueueBounded ==
    /\ [](Len(queue) <= MAX_QUEUE_SIZE)
    /\ [][((DirectAtSizeCheck \/ ResumedAtSizeCheck) /\ Len(queue) >= MAX_QUEUE_SIZE)
            => (/\ out' = IF clients[last'.c].open
                          THEN <<Frame(last'.c, "queue_full", 0, 0, "")>> ELSE <<>>
                /\ NothingAdmitted(last'.c))]_vars

\* C5's case: a join_queue was just answered queue_full with the queue at its bound
C5_Witness ==
    /\ Len(queue) = MAX_QUEUE_SIZE
    /\ last.op \in {"join_queue", "join"}
    /\ out = <<Frame(last.c, "queue_full", 0, 0, "")>>

\* C6 as stated: when a session end has run to completion, the active slot is empty
\* if and only if the queue, as it is then, holds no id of an open connection.
C6_EmptyIffNoLiveQueued ==
    [][last'.op = "end_del"
         => (activeSession' = 0 <=> FirstLive(queue', clients') = 0)]_vars

\* C6, amended: when a session end has run to completion, the active slot is empty
\* if and only if the queue held no id of an open connection when the promotion
\* attempt began; and when the slot is empty the queue is empty.
C6_PromotionComplete ==
    [][last'.op = "end_del"
         => (/\ activeSession' = 0 <=> FirstLive(queue, clients) = 0
             /\ activeSession' = 0 => queue' = <<>>)]_vars

\* C6's case: a session end has just completed and promoted a queued client
C6_Witness ==
    /\ last.op = "end_del"
    /\ activeSession # 0
    /\ activeSession # last.sid
    /\ sessions[activeSession].client # last.c

\* C7: a join_queue that carries the session's inviteToken from the session's source
\* address, processed after the holder's connection closed and before the grace timer
\* fires, keeps sessionId, expiresAt and sessionToken, makes the new connection the
\* clientId, clears awaitingReconnect, cancels the grace timer, does not signal the
\* subprocess, and sends session_token then session_starting{reconnected} with the
\* unchanged token and expiry.
C7_ReconnectKeepsSession ==
    [][(/\ last'.op = "join_queue"
        /\ activeSession # 0
        /\ sessions[activeSession].awaitingReconnect
        /\ \E t \in timers : t.kind = "grace" /\ t.sid = activeSession
        /\ last'.arg = sessions[activeSession].inviteToken
        /\ clients[last'.c].ip = sessions[activeSession].ip)
         => LET a == activeSession
                c == last'.c
            IN /\ activeSession' = a
               /\ sessions'[a].sessionId = sessions[a].sessionId
               /\ sessions'[a].expiresAt = sessions[a].expiresAt
               /\ sessions'[a].sessionToken = sessions[a].sessionToken
               /\ sessions'[a].clientId = c
               /\ ~sessions'[a].awaitingReconnect
               /\ ~\E t \in timers' : t.kind = "grace"
               /\ disconnectGraceTimeout' = 0
               /\ ttyd' = ttyd
               /\ out' = <<Frame(c, "session_token", sessions[a].sessionToken, 0, ""),
                           Frame(c, "session_starting", sessions[a].sessionToken,
                                 sessions[a].expiresAt, "reconnected")>>]_vars

\* C7's case: the holder's connection closed and another connection has just taken
\* the session over
C7_Witness ==
    /\ last.op = "join_queue"
    /\ activeSession # 0
    /\ sessions[activeSession].clientId = last.c
    /\ sessions[activeSession].client # last.c
    /\ ~clients[sessions[activeSession].client].open
    /\ Len(out) = 2 /\ out[2].r = "reconnected"

\* C8: when the grace timer armed for the active session fires (no reconnect has
\* cancelled it), endSession runs with reason `disconnected` and signals the
\* subprocess; when that end completes, the first open connection of the queue, if
\* any, is promoted; and at most one grace timer is pending at any time.
C8_GraceExpiry ==
    /\ [](Cardinality({t \in timers : t.kind = "grace"}) <= 1)
    /\ [][\A t \in timers :
            (Fires("grace", t) /\ activeSession = t.sid)
              => (/\ EndingNext(t.sid, "disconnected")
                  /\ ttyd'[t.sid].st = "running" => "SIGTERM" \in ttyd'[t.sid].sigs)]_vars
    /\ [][(/\ last'.op = "end_del"
           /\ redisq # <<>>
           /\ Head(redisq).reason = "disconnected")
            => IF FirstLive(queue, clients) = 0
               THEN activeSession' = 0
               ELSE /\ activeSession' = Len(sessions) + 1
                    /\ sessions'[activeSession'].clientId = FirstLive(queue, clients)]_vars

\* C8's case: the grace timer has just fired on the session it was armed for, with a
\* client waiting in the queue
C8_Witness ==
    /\ last.op = "grace"
    /\ activeSession = last.sid
    /\ queue # <<>>
    /\ \E i \in 1..Len(redisq) : redisq[i].sid = last.sid /\ redisq[i].reason = "disconnected"

\* C9: when the timeout timer of a session fires and that session is still the active
\* session, it is ended with reason `timeout`, also after its holder reconnected.
C9_TimeoutEndsSession ==
    [][\A t \in timers :
         (Fires("timeout", t) /\ activeSession = t.sid)
           => EndingNext(t.sid, "timeout")]_vars

\* C10: when the subprocess of the active session exits, that session is ended with
\* reason `container_exit`, also after its holder reconnected on a new connection.
C10_ExitEndsSession ==
    [][(activeSession # 0 /\ Exits(activeSession))
         => EndingNext(activeSession, "container_exit")]_vars

\* the step in which the spawn of session sid is reported as failed
SpawnFails(sid) ==
    /\ sid \in 1..Len(ttyd')
    /\ ttyd'[sid].st = "failed"
    /\ sid > Len(ttyd) \/ ttyd[sid].st # "failed"

\* C11: when the start of the terminal subprocess fails, the requesting client gets an
\* `error` frame and is back in state `connected`, the failed session no longer holds
\* the active slot, and a live queued client, if any, has been promoted.
C11_SpawnFailureFreesSlot ==
    [][\A sid \in 1..Len(ttyd') :
         SpawnFails(sid)
           => /\ \E i \in 1..Len(out') :
                    /\ out'[i].type = "error"
                    /\ out'[i].to = sessions'[sid].client
              /\ clients'[sessions'[sid].client].state = "connected"
              /\ activeSession' # sid
              /\ FirstLive(queue', clients') # 0 => activeSession' # 0]_vars

\* C12: for every stored invite record, useCount never exceeds maxUses.
C12_UseCountBounded ==
    \A t \in DOMAIN invites :
        invites[t].status # "none" => invites[t].useCount <= invites[t].maxUses

\* the step resumes a joinQueue with the record validateInvite has read
JoinValidates ==
    /\ last'.op = "join"
    /\ redisq # <<>>
    /\ Head(redisq).k = "join"

\* the record counts as used up
Exhausted(r) == r.status = "used" \/ r.useCount >= r.maxUses

\* the address and the token match the active session or a pending-token entry
RejoinMatch(token, ip) ==
    \/ /\ activeSession # 0
       /\ sessions[activeSession].inviteToken = token
       /\ sessions[activeSession].ip = ip
    \/ \E e \in pendingSessionTokens : e.inviteToken = token /\ e.ip = ip

\* the join of c went on to the admission: queue_full at the bound, else c was pushed
\* (and stays queued or was started at once)
PassedValidation(c) ==
    IF Len(queue) >= MAX_QUEUE_SIZE
    THEN /\ out' = IF clients[c].open
                   THEN <<Frame(c, "queue_full", 0, 0, "")>> ELSE <<>>
         /\ NothingAdmitted(c)
    ELSE \/ Includes(queue', c)
         \/ /\ activeSession' = Len(sessions) + 1
            /\ sessions'[activeSession'].client = c

\* the join of c was refused with this reason and changed nothing
Refused(c, reason) ==
    /\ out' = IF clients[c].open
              THEN <<Frame(c, "invite_invalid", 0, 0, reason)>> ELSE <<>>
    /\ NothingAdmitted(c)

\* C13 as stated: on every record with status `used` or useCount >= maxUses the
\* validation passes exactly when address and token match the active session or a
\* pending-token entry, and in every other case the join is refused with `used`.
C13_UsedOrRejoin ==
    [][(/\ JoinValidates
        /\ invites[Head(redisq).tok].status # "none"
        /\ Exhausted(invites[Head(redisq).tok]))
         => IF RejoinMatch(Head(redisq).tok, clients[Head(redisq).c].ip)
            THEN PassedValidation(Head(redisq).c)
            ELSE Refused(Head(redisq).c, "used")]_vars

\* C13, amended: the same for every such record that is not revoked; a revoked
\* record is refused with `revoked` whatever its useCount.
C13_UsedOrRejoinUnlessRevoked ==
    /\ [][(/\ JoinValidates
           /\ invites[Head(redisq).tok].status \notin {"none", "revoked"}
           /\ Exhausted(invites[Head(redisq).tok]))
            => IF RejoinMatch(Head(redisq).tok, clients[Head(redisq).c].ip)
               THEN PassedValidation(Head(redisq).c)
               ELSE Refused(Head(redisq).c, "used")]_vars
    /\ [][(JoinValidates /\ invites[Head(redisq).tok].status = "revoked")
            => Refused(Head(redisq).c, "revoked")]_vars

\* C13's case: a join with a used-up invite has just been let through as a rejoin
C13_Witness ==
    /\ last.op = "join"
    /\ invites[last.arg].status \notin {"none", "revoked"}
    /\ Exhausted(invites[last.arg])
    /\ Includes(queue, last.c)

\* C13's other case: a join with a used-up invite from another address than the
\* active session's has just been refused
C13_RefusedElsewhere ==
    /\ last.op = "join"
    /\ out = <<Frame(last.c, "invite_invalid", 0, 0, "used")>>
    /\ activeSession # 0
    /\ sessions[activeSession].inviteToken = last.arg
    /\ sessions[activeSession].ip # clients[last.c].ip

\* the step answers GET /api/session/validate for this cookie with this status
Answers(cookie, status) ==
    /\ last'.op = "validate"
    /\ out' = <<Frame(0, "http", status, cookie, "")>>

\* the token is in the session-token map, mapped to the current active session
TokenOfActive(tok) ==
    /\ activeSession # 0
    /\ \E e \in sessionTokens : e.tok = tok /\ e.sid = sessions[activeSession].sessionId

\* the token is a key of the pending-token map
TokenPending(tok) == \E e \in pendingSessionTokens : e.tok = tok

\* C14: GET /session/validate answers 200 for a presented token if and only if the
\* token is in the session-token map mapped to the current active session or is a key
\* of the pending-token map; otherwise it answers 401 and the token, if it was in the
\* session-token map, is removed from it.  Nothing else changes.
C14_TokenValidationLaw ==
    [][\A cookie \in 1..(nextTok - 1) :
         last'.op = "validate" /\ out'[1].b = cookie
           => /\ IF TokenOfActive(cookie) \/ TokenPending(cookie)
                 THEN /\ Answers(cookie, 200)
                      /\ sessionTokens' = sessionTokens
                 ELSE /\ Answers(cookie, 401)
                      /\ sessionTokens' = {e \in sessionTokens : e.tok # cookie}
              /\ pendingSessionTokens' = pendingSessionTokens
              /\ activeSession' = activeSession
              /\ queue' = queue]_vars

\* C14's case: the route has just answered 200 for the token of the active session
C14_Witness ==
    /\ last.op = "validate"
    /\ out # <<>>
    /\ out[1].a = 200
    /\ TokenOfActive(out[1].b)

\* C15: every entry of the pending-token map belongs to a client that is in the queue
\* (the time between admission and session start lies inside one step).
C15_PendingOnlyWhileQueued ==
    \A e \in pendingSessionTokens : Includes(queue, e.clientId)

\* the step starts a new session for client c
StartsSession(c) ==
    /\ Len(sessions') = Len(sessions) + 1
    /\ activeSession' = Len(sessions')
    /\ sessions'[activeSession'].client = c

\* the new session of c carries token x: x has left the pending-token map, the
\* session-token map sends it to the new sessionId, and session_starting carries it
TokenPromoted(c, x) ==
    /\ sessions'[activeSession'].sessionToken = x
    /\ ~\E e \in pendingSessionTokens' : e.tok = x
    /\ \E e \in sessionTokens' : e.tok = x /\ e.sid = sessions'[activeSession'].sessionId
    /\ \A e \in sessionTokens' : e.tok = x => e.sid = sessions'[activeSession'].sessionId
    /\ clients[c].open =>
         \E i \in 1..Len(out') :
             out'[i] = Frame(c, "session_starting", x, sessions'[activeSession'].expiresAt, "")

\* C16: pending-token round trip.  A client admitted while the queue is empty and no
\* session is active gets session_token and then session_starting with the same
\* token, which has moved from the pending-token map to the session-token map under
\* the new sessionId; a client promoted later from the queue gets session_starting
\* with the pending token of its admission, moved in the same way; and the token a
\* client holds is always the one of the last session_token frame sent to it.
C16_PendingTokenRoundTrip ==
    /\ [][((DirectAtSizeCheck \/ ResumedAtSizeCheck)
             /\ queue = <<>> /\ activeSession = 0)
            => /\ StartsSession(last'.c)
               /\ TokenPromoted(last'.c, nextTok)
               /\ clients[last'.c].open =>
                    /\ Len(out') >= 2
                    /\ out'[1] = Frame(last'.c, "session_token", nextTok, 0, "")
                    /\ out'[2].type = "session_starting"
                    /\ out'[2].a = nextTok]_vars
    /\ [][\A c \in Conn :
            (StartsSession(c) /\ last'.op \notin {"join_queue", "join"})
              => /\ \E e \in pendingSessionTokens :
                       e.tok = clients[c].pendingSessionToken /\ e.clientId = c
                 /\ TokenPromoted(c, clients[c].pendingSessionToken)]_vars
    /\ [][\A c \in Conn :
            /\ \A i \in 1..Len(out') :
                   (out'[i].type = "session_token" /\ out'[i].to = c)
                     => clients'[c].pendingSessionToken = out'[i].a
            /\ (/\ clients[c].open /\ clients'[c].open
                /\ clients'[c].pendingSessionToken # clients[c].pendingSessionToken)
                 => \E i \in 1..Len(out') :
                        out'[i] = Frame(c, "session_token",
                                        clients'[c].pendingSessionToken, 0, "")]_vars

\* the step completes an endSession call made for session sid
EndCompletes(sid) ==
    /\ last'.op = "end_del"
    /\ last'.sid = sid
    /\ sid \in 1..Len(sessions)

\* C17: when the end of a session has run to completion, for whatever reason, the
\* session's token is a key of neither token map (so that /session/validate
\* answers 401 for it).
C17_EndedTokenEvicted ==
    [][\A sid \in 1..Len(sessions) :
         EndCompletes(sid)
           => /\ ~\E e \in sessionTokens' : e.tok = sessions[sid].sessionToken
              /\ ~\E e \in pendingSessionTokens' : e.tok = sessions[sid].sessionToken]_vars

\* the step handles a leave_queue message of connection c
Leaves(c) == last'.op = "leave_queue" /\ last'.c = c

\* C18: leave_queue from a connection whose id is not in the queue changes no
\* coordinator state and emits no frame to anyone.
C18_IdempotentLeave ==
    [][\A c \in Conn :
         (Leaves(c) /\ ~Includes(queue, c))
           => /\ out' = <<>>
              /\ UNCHANGED <<clients, queue, activeSession, sessions, ttyd, envFiles,
                             sessionTokens, pendingSessionTokens,
                             disconnectGraceTimeout, reconnectionInProgress, timers,
                             redisq, invites, nextTok>>]_vars

\* C18's case: the session holder, who is not in the queue, has just sent leave_queue
\* while another client waits
C18_Witness ==
    /\ last.op = "leave_queue"
    /\ ~Includes(queue, last.c)
    /\ clients[last.c].state = "active"
    /\ queue # <<>>
    /\ out = <<>>

\* C19: leave_queue from a queued client removes that client's id from the queue and
\* keeps the order of the others, sets its state to `connected`, sends it left_queue,
\* and sends every client still queued queue_position with its new 1-based position.
C19_LeaveRemovesAndNotifies ==
    [][\A c \in Conn :
         (Leaves(c) /\ Includes(queue, c))
           => /\ queue' = SelectSeq(queue, LAMBDA x : x # c)
              /\ clients'[c].state = "connected"
              /\ out' # <<>>
              /\ out'[1] = Frame(c, "left_queue", 0, 0, "")
              /\ \A i \in 1..Len(queue') :
                     clients[queue'[i]].open
                       => \E j \in 1..Len(out') :
                              /\ out'[j].to = queue'[i]
                              /\ out'[j].type = "queue_position"
                              /\ out'[j].a = i
                              /\ out'[j].b = Len(queue')]_vars

\* the step writes back the invite record of an ending session (recordInviteUsage's
\* redis.set has completed)
AuditWritten(tok, sid, reason) ==
    /\ last'.op = "end_set"
    /\ redisq # <<>>
    /\ Head(redisq).k = "end_set"
    /\ Head(redisq).tok = tok
    /\ Head(redisq).sid = sid
    /\ Head(redisq).reason = reason

\* C20: audit append.  The end of a session that carries an invite adds exactly one
\* element to the stored record's `sessions`, as its last element, holding the
\* session's sessionId, the id of a client that held it and the endReason; useCount
\* grows by exactly one;
\* the status is `used` if and only if the new useCount >= maxUses.  No session is
\* recorded twice.
C20_AuditAppend ==
    /\ [][\A tok \in DOMAIN invites, sid \in 1..Len(sessions),
            reason \in {"timeout", "container_exit", "disconnected"} :
            AuditWritten(tok, sid, reason)
              => /\ \E holder \in Conn :
                       invites'[tok].audits =
                           Append(invites[tok].audits,
                                  [sessionId |-> sessions[sid].sessionId,
                                   clientId |-> holder,
                                   endReason |-> reason])
                 /\ invites'[tok].useCount = invites[tok].useCount + 1
                 /\ invites'[tok].status = "used"
                      <=> invites'[tok].useCount >= invites'[tok].maxUses]_vars
    /\ [](\A tok \in DOMAIN invites :
            \A i, j \in 1..Len(invites[tok].audits) :
                invites[tok].audits[i].sessionId = invites[tok].audits[j].sessionId
                  => i = j)

\* the last step was a join_queue that took over the awaiting session
TookOver ==
    /\ last.op = "join_queue"
    /\ activeSession # 0
    /\ sessions[activeSession].clientId = last.c
    /\ \E i \in 1..Len(out) :
           /\ out[i].type = "session_starting"
           /\ out[i].to = last.c
           /\ out[i].r = "reconnected"

\* C21: reconnect race.  When a join_queue has taken over the awaiting session and
\* the very next message processed is a join_queue of another connection with the
\* same inviteToken from the session's address, that second join is answered with an
\* `error` frame and leaves the queue, both token maps, the active session and the
\* losing client's state unchanged.
C21_ReconnectRaceLoser ==
    [][(/\ TookOver
        /\ last'.op = "join_queue"
        /\ last'.c # last.c
        /\ last'.arg = last.arg
        /\ clients[last'.c].ip = sessions[activeSession].ip)
         => /\ \E i \in 1..Len(out') :
                   out'[i].type = "error" /\ out'[i].to = last'.c
            /\ NothingAdmitted(last'.c)]_vars

\* the step belongs to the handling of a GET /api/invite/validate request
InviteRouteStep == last'.op \in {"invite_validate", "http_get", "http_ttl", "http_set"}

\* C22: handling GET /invite/validate has no side effects: whatever the stored
\* record, the invite record and the coordinator state (queue, active session, token
\* maps, clients, sessions) are the same after each of its steps as before.
C22_ValidateRouteNoSideEffects ==
    [][InviteRouteStep
         => /\ invites' = invites
            /\ UNCHANGED <<queue, activeSession, sessionTokens, pendingSessionTokens,
                           clients, sessions>>]_vars

\* C23: when the store read of an invite fails during the validation of a join_queue,
\* the client, if still connected, receives invite_invalid with reason not_found and
\* is not admitted: the queue, the token maps, the active session and the client's
\* state stay as they were.
C23_ReadFailureIsNotFound ==
    [][(last'.op = "rejected" /\ last'.arg = "join" /\ clients[last'.c].open)
         => /\ \E i \in 1..Len(out') : /\ out'[i].to = last'.c
                                       /\ out'[i].type = "invite_invalid"
                                       /\ out'[i].r = "not_found"
            /\ NothingAdmitted(last'.c)]_vars

\* the step is the failure of a store call made by recordInviteUsage
AuditFails == last'.op = "rejected" /\ last'.arg \in {"end_get", "end_set"}

ShutdownNotifies ==
    /\ \/ last'.op = "sigterm" /\ activeSession # 0
       \/ last'.op \in {"end_get", "end_set"} /\ Head(redisq).reason = "shutdown"
    /\ redisq' # <<>>
    /\ redisq'[Len(redisq')].k = "end_del"
    /\ redisq'[Len(redisq')].reason = "shutdown"

\* the step closes the listeners and ends the process
ListenersClose == listening /\ ~listening'

\* C25: on SIGTERM with an active session, the handler's own step signals the
\* subprocess with SIGTERM if it runs, removes the session token and keeps the
\* listeners open; the step of endSession('shutdown') that goes on to redis.del sends
\* session_ended with reason shutdown to the connection that holds the session then,
\* if it is open; and the listeners
\* close only in the SIGTERM step taken with no active session or at the completion
\* of an endSession('shutdown'), whose subprocess has by then been signalled or has
\* exited.
C25_ShutdownEndsSessionFirst ==
    [][/\ (last'.op = "sigterm" /\ activeSession # 0)
          => /\ listening'
             /\ ttyd[activeSession].st = "running"
                  => "SIGTERM" \in ttyd'[activeSession].sigs
             /\ \A e \in sessionTokens' : e.tok # sessions[activeSession].sessionToken
             /\ EndingNext(activeSession, "shutdown")
       /\ (ShutdownNotifies /\ clients[sessions[redisq'[Len(redisq')].sid].clientId].open)
          => \E j \in 1..Len(out') : /\ out'[j].to = sessions[redisq'[Len(redisq')].sid].clientId
                                     /\ out'[j].type = "session_ended"
                                     /\ out'[j].r = "shutdown"
       /\ ListenersClose
          => \/ last'.op = "sigterm" /\ activeSession = 0
             \/ /\ last'.op = "end_del" /\ Head(redisq).reason = "shutdown"
                /\ ttyd[last'.sid].st # "running" \/ "SIGTERM" \in ttyd[last'.sid].sigs]_vars

\* the step is the close of connection c
Closes(c) == last'.op = "disconnect" /\ last'.c = c /\ clients[c].open

\* C26: when the connection of a queued client closes, its id is removed from the
\* queue, its pending session token is no longer in the pending-token map after the
\* step, and every client still queued is sent queue_position with its new position;
\* when the connection of the session holder closes, the step leaves the session-token
\* map and the subprocesses as they were and arms the grace timer.
C26_CloseWhileQueuedOrActive ==
    [][\A c \in Conn :
         Closes(c)
           => /\ Includes(queue, c)
                   => /\ queue' = SelectSeq(queue, LAMBDA x : x # c)
                      /\ \A e \in pendingSessionTokens' :
                             e.tok # clients[c].pendingSessionToken
                      /\ \A i \in 1..Len(queue') :
                             clients[queue'[i]].open
                               => \E j \in 1..Len(out') :
                                      /\ out'[j].to = queue'[i]
                                      /\ out'[j].type = "queue_position"
                                      /\ out'[j].a = i
                                      /\ out'[j].b = Len(queue')
              /\ (activeSession # 0 /\ sessions[activeSession].clientId = c)
                   => /\ sessionTokens' = sessionTokens
                      /\ ttyd' = ttyd
                      /\ Timer("grace", activeSession, c) \in timers']_vars

\* the step refuses the token with this reason: a 401 answer of the route, or
\* invite_invalid to the joining client c
RefusesWith(c, reason) ==
    \E i \in 1..Len(out') :
        /\ out'[i].r = reason
        /\ \/ out'[i].type = "http" /\ out'[i].a = 401
           \/ out'[i].type = "invite_invalid" /\ out'[i].to = c

\* the step is the return of validateInvite's store read, for a join_queue of an open
\* connection or for the route
ValidationReturns ==
    /\ last'.op \in {"join", "http_get"}
    /\ last'.op = "join" => clients[last'.c].open

\* the step goes on to rewrite the record as expired
RewriteQueued ==
    /\ redisq' # <<>>
    /\ redisq'[Len(redisq')].k \in {"val_ttl", "http_ttl"}
    /\ redisq'[Len(redisq')].val.status = "expired"

\* the stored record counts as used
IsUsed(r) == r.status = "used" \/ r.useCount >= r.maxUses

\* C27: validateInvite decides in the order syntax, not_found, revoked,
\* used-or-rejoin, expired, valid. A malformed token is refused with `invalid` in the
\* step that presents it, and no store read is ever issued for one; a missing record
\* gives not_found; a
\* revoked record gives revoked whatever its use count; an unrevoked used record
\* gives used or is accepted, never expired, and is not rewritten; the rewrite as
\* expired is started exactly for an unrevoked, unused record past its expiry, and
\* ends with the record stored with status expired and the answer expired.
C27_ValidationOrder ==
    [][/\ (last'.op = "invite_validate" /\ Truthy(last'.arg) /\ ~WellFormed(last'.arg))
          => RefusesWith(last'.c, "invalid") /\ redisq' = redisq /\ invites' = invites
       /\ \A i \in 1..Len(redisq') :
            redisq'[i].k \in {"join", "http_get"} => WellFormed(redisq'[i].tok)
       /\ ValidationReturns
          => LET r == invites[last'.arg]
             IN /\ r.status = "none" => RefusesWith(last'.c, "not_found")
                /\ r.status = "revoked" => RefusesWith(last'.c, "revoked")
                /\ (r.status \notin {"none", "revoked"} /\ IsUsed(r))
                     => /\ ~RefusesWith(last'.c, "expired")
                        /\ ~RefusesWith(last'.c, "revoked")
                        /\ ~RefusesWith(last'.c, "not_found")
                        /\ ~RewriteQueued
                /\ RewriteQueued
                     <=> r.status \notin {"none", "revoked"} /\ ~IsUsed(r) /\ r.pastExpiry
                /\ invites' = invites
       /\ last'.op \in {"val_set", "http_set"}
          => /\ invites'[last'.arg].status = "expired"
             /\ (last'.op = "val_set" => clients[last'.c].open)
                  => RefusesWith(last'.c, "expired")]_vars

\* C27's case: a record that is used and past its expiry has just been answered used
C27_Witness ==
    /\ last.op = "http_get"
    /\ invites[last.arg].status # "revoked"
    /\ IsUsed(invites[last.arg])
    /\ invites[last.arg].pastExpiry
    /\ out = <<Frame(0, "http", 401, 0, "used")>>

\* a startSession is suspended on its redis.set
StartInProgress == \E i \in 1..Len(redisq) : redisq[i].k = "start_set"

\* C28: in every state where no session is active and no session start is in
\* progress, no credential file created by a startSession exists.
C28_NoCredentialFileWhenIdle ==
    (activeSession = 0 /\ ~StartInProgress) => envFiles = {}

\* C29: when the hard timer of a session fires and the subprocess of that session
\* still runs, the subprocess is sent SIGKILL, whoever holds the session then.
C29_HardTimeoutKills ==
    [][\A t \in timers :
         (Fires("hard", t) /\ ttyd[t.sid].st = "running")
           => "SIGKILL" \in ttyd'[t.sid].sigs]_vars

\* C30: a warning, timeout or hard timer armed for a session that is not the active
\* session when it fires has no effect: the step sends nothing, signals no
\* subprocess, starts no endSession and leaves the active session as it was.
C30_StaleTimersNoOps ==
    [][\A t \in timers :
         ((Fires("warning", t) \/ Fires("timeout", t) \/ Fires("hard", t))
          /\ activeSession # t.sid)
           => /\ out' = <<>>
              /\ ttyd' = ttyd
              /\ redisq' = redisq
              /\ activeSession' = activeSession
              /\ sessionTokens' = sessionTokens]_vars

\* the endSession calls for session sid that are suspended on a store call in q
EndsUnderWay(q, sid) ==
    {i \in 1..Len(q) : q[i].k \in {"end_get", "end_set", "end_del"} /\ q[i].sid = sid}

\* C31: each session is ended once: no step leaves two endSession calls for the same
\* session suspended, and an endSession that completes while another session holds
\* the active slot leaves the slot to that session.
C31_EndedOnce ==
    [][/\ \A sid \in 1..Len(sessions') : Cardinality(EndsUnderWay(redisq', sid)) <= 1
       /\ (last'.op = "end_del" /\ activeSession # 0 /\ activeSession # last'.sid)
            => activeSession' = activeSession]_vars

\* the step resumes the join_queue of open connection c after a validation that
\* accepts its invite, with c not yet in the queue
ResumesAccepted(c) ==
    /\ last'.op = "join" /\ last'.c = c
    /\ clients[c].open
    /\ ~Includes(queue, c)
    /\ ValidateInvite(Cur, last'.arg, clients[c].ip).valid

\* C32: when a join_queue resumes from its invite validation with the queue empty, it
\* starts a session for its client if the slot is free, and if the slot was taken
\* while it was suspended it leaves the slot alone and queues its client at
\* position 1: of two overlapping joins exactly one starts a session.
C32_OverlappingJoins ==
    [][\A c \in Conn :
         (ResumesAccepted(c) /\ queue = <<>>)
           => IF activeSession = 0
              THEN /\ activeSession' = Len(sessions) + 1
                   /\ sessions'[activeSession'].clientId = c
                   /\ queue' = <<>>
              ELSE /\ activeSession' = activeSession
                   /\ sessions' = sessions
                   /\ queue' = <<c>>
                   /\ \E i \in 1..Len(out') : /\ out'[i].to = c
                                              /\ out'[i].type = "queue_position"
                                              /\ out'[i].a = 1]_vars

\* C32's case: the second of two joins has just resumed and found the slot taken by
\* the other connection
C32_Witness ==
    /\ last.op = "join"
    /\ activeSession # 0
    /\ sessions[activeSession].clientId # last.c
    /\ clients[sessions[activeSession].clientId].open
    /\ queue = <<last.c>>
    /\ redisq # <<>> /\ redisq[1].k = "start_set"

\* C33: in every state with no handler suspended, a connected client has state
\* `active` if and only if its id is the clientId of the active session, and state
\* `queued` if and only if its id is in the queue.
C33_ClientStateMatches ==
    redisq = <<>>
      => \A c \in Conn :
           clients[c].open
             => /\ clients[c].state = "active"
                   <=> (activeSession # 0 /\ sessions[activeSession].clientId = c)
                /\ clients[c].state = "queued" <=> Includes(queue, c)

\* C34: every entry of the session-token map maps to the active session; while a
\* session is active and no endSession of it is under way its sessionToken is a key
\* of the map; when no session is active the map is empty.
C34_TokenMapMatchesSlot ==
    /\ \A e \in sessionTokens : activeSession # 0 /\ e.sid = activeSession
    /\ (activeSession # 0 /\ EndsUnderWay(redisq, activeSession) = {})
         => \E e \in sessionTokens : /\ e.tok = sessions[activeSession].sessionToken
                                     /\ e.sid = activeSession

\* C35: a store failure on the session record changes nothing else: when the
\* redis.set of a session start fails, the step sends no error frame and leaves the
\* client's state and the credential files as they were; when the redis.del of a
\* session end fails, the slot of that session is still cleared.
C35_SessionRecordBestEffort ==
    [][/\ (last'.op = "rejected" /\ last'.arg = "start_set")
          => /\ \A i \in 1..Len(out') : out'[i].type # "error"
             /\ clients[last'.c].open => clients'[last'.c].state = clients[last'.c].state
             /\ envFiles' = envFiles
       /\ (last'.op = "rejected" /\ last'.arg = "end_del" /\ activeSession = last'.sid)
          => activeSession' # last'.sid]_vars

\* C36: for a session started without an invite, a join_queue that carries no invite
\* token, from the session's source address while the session awaits its reconnect,
\* takes the session over and is not queued.
C36_ReconnectWithoutInvite ==
    [][(/\ last'.op = "join_queue"
        /\ ~Truthy(last'.arg)
        /\ activeSession # 0
        /\ sessions[activeSession].awaitingReconnect
        /\ sessions[activeSession].inviteToken = "null"
        /\ clients[last'.c].open
        /\ clients[last'.c].ip = sessions[activeSession].ip)
         => /\ activeSession' = activeSession
            /\ sessions'[activeSession].clientId = last'.c
            /\ queue' = queue]_vars

\* the position frame that client c is due when it stands in queue q
PositionFrame(q, c) ==
    Frame(c, "queue_position", IndexOf(q, c), Len(q),
          ToString(IndexOf(q, c) * AVERAGE_SESSION_MINUTES) \o " minutes")

\* C37: every step that changes the queue sends each open connection still in the
\* queue a queue_position frame with its current 1-based position, the current queue
\* size and estimated_wait = position * AVERAGE_SESSION_MINUTES, and no later
\* queue_position frame in that step says otherwise.
C37_PositionsFresh ==
    [][queue' # queue
         => \A c \in Conn :
              (Includes(queue', c) /\ clients'[c].open)
                => /\ \E i \in 1..Len(out') : out'[i] = PositionFrame(queue', c)
                   /\ \A i \in 1..Len(out') :
                        (out'[i].to = c /\ out'[i].type = "queue_position")
                          => \E j \in i..Len(out') : out'[j] = PositionFrame(queue', c)]_vars

\* C38: the step that closes the listeners starts nothing: it leaves no active
\* session, it creates no session and spawns no subprocess, and every subprocess
\* that still runs after it has been signalled.
C38_ShutdownStartsNothing ==
    [][ListenersClose =>
          /\ activeSession' = 0
          /\ Len(sessions') = Len(sessions)
          /\ Len(ttyd') = Len(ttyd)
          /\ \A sid \in 1..Len(ttyd') :
                 ttyd'[sid].st = "running" => ttyd'[sid].sigs # {}]_vars

\* connection c waits in the queue with its connection open
Waiting(c) == clients[c].open /\ Includes(queue, c)

\* connection c holds the active session
Holds(c) == activeSession # 0 /\ sessions[activeSession].clientId = c

\* C39: with timers that fire and store calls that complete, a client that waits in
\* the queue becomes the holder of the active session, unless its connection closes;
\* the obligation ends once the bound on the number of sessions is reached.
C39_NoStarvation ==
    \A c \in Conn :
        Waiting(c) ~> (Holds(c) \/ ~clients[c].open \/ Len(sessions) >= lim.sessions)

====
